---- MODULE Spec2Model ----
(***************************************************************************)
(* A model of the in-memory editor engine of ds-text-editor (server.js and *)
(* its earlier revision): the Rope buffer, the Trie vocabulary, the        *)
(* UndoRedoManager history, boyerMooreSearch, and the request handlers     *)
(* that tie them to the files registry.                                    *)
(*                                                                         *)
(* A JavaScript string is modelled as a sequence of one-character strings; *)
(* JavaScript's 0-based indices are kept and converted where a TLA+        *)
(* sequence is indexed.                                                    *)
(***************************************************************************)
EXTENDS Integers, Sequences, FiniteSets, TLC

VARIABLES
    bm,             \* the activation of boyerMooreSearch: its locals and position
    rope,           \* a Rope under direct insert / delete calls, with the last call
    files,          \* const files: name -> { content: Rope, history: UndoRedoManager }
    suggestionTrie, \* const suggestionTrie: the shared Trie
    res,            \* the last response sent by a request handler
    run             \* the run so far: requests served, and the scenario's edit run

vars == <<bm, rope, files, suggestionTrie, res, run>>

-----------------------------------------------------------------------------
(* Bounds of the model.                                                    *)

\* longest text handed to boyerMooreSearch
MaxText == 4
\* longest pattern handed to boyerMooreSearch
MaxPat == 2
\* scan-loop iterations followed in one run of boyerMooreSearch
MaxIters == 8

\* longest text a rope holds under direct insert / delete calls
MaxRopeText == 3
\* longest fragment handed to Rope.insert
MaxFragment == 1
\* how far beyond the text an offset handed to Rope.insert / Rope.delete lies
MaxBeyond == 1

\* edits in one chain of the history scenario
MaxChain == 51
\* characters typed after the initial text in one run of SpecHist
MaxTyped == 52

\* the characters of the rope's texts and fragments
RopeChars == {"a", "b"}
\* the characters of the texts and patterns searched
SearchChars == {"a", "b"}

-----------------------------------------------------------------------------
(* JavaScript values and string primitives.                                *)

\* the value of an out-of-range string index and of a missing object key
Undefined == "undefined"

Max(a, b) == IF a >= b THEN a ELSE b
Min(a, b) == IF a <= b THEN a ELSE b

\* all strings over chars of length 0..n
StringsUpTo(chars, n) == UNION {[1..k -> chars] : k \in 0..n}

\* str[k] for a 0-based k: the character, or undefined outside the string
CharAt(str, k) == IF k >= 0 /\ k < Len(str) THEN str[k + 1] ELSE Undefined

\* String.prototype.slice(from, to): a negative bound counts from the end,
\* both are clamped to the string, and an inverted range is empty
Slice(str, from, to) ==
    LET n == Len(str)
        b == IF from < 0 THEN Max(n + from, 0) ELSE Min(from, n)
        e == IF to < 0 THEN Max(n + to, 0) ELSE Min(to, n)
    IN  IF b < e THEN SubSeq(str, b + 1, e) ELSE <<>>

\* String.prototype.slice(from): to the end of the string
SliceFrom(str, from) == Slice(str, from, Len(str))

-----------------------------------------------------------------------------
(* 4. BOYER-MOORE SEARCH                                                   *)

\* for (let i = 0; i < m; i++) badChar[pattern[i]] = i;
\* the keys are the pattern's characters, a later index overwrites an earlier
badCharTable(pattern) ==
    [c \in {pattern[i] : i \in 1..Len(pattern)} |->
        CHOOSE i \in 0..(Len(pattern) - 1) :
            /\ pattern[i + 1] = c
            /\ \A k \in 0..(Len(pattern) - 1) : pattern[k + 1] = c => k <= i]

\* let j = m - 1; while (j >= 0 && pattern[j] === text[s + j]) j--;
\* the value of j when the inner loop is left: -1 on a full match
RECURSIVE compareFrom(_, _, _, _)
compareFrom(text, pattern, s, j) ==
    IF j >= 0 /\ CharAt(pattern, j) = CharAt(text, s + j)
    THEN compareFrom(text, pattern, s, j - 1)
    ELSE j

\* (s + m < n) ? m - badChar[text[s + m]] || -1 : 1
\* m - undefined is NaN, and both NaN and 0 are falsy, so `|| -1` yields -1
shiftAfterMatch(text, pattern, badChar, s) ==
    LET m == Len(pattern)
        n == Len(text)
        c == CharAt(text, s + m)
    IN  IF s + m < n
        THEN IF c \in DOMAIN badChar /\ m - badChar[c] # 0
             THEN m - badChar[c]
             ELSE -1
        ELSE 1

\* Math.max(1, j - (badChar[text[s + j]] !== undefined ? badChar[text[s + j]] : -1))
shiftAfterMismatch(text, badChar, s, j) ==
    LET c == CharAt(text, s + j)
    IN  Max(1, j - (IF c \in DOMAIN badChar THEN badChar[c] ELSE -1))

\* the activation before the call: the arguments only. shifts is the history
\* of the loop: the values s had at the head of the iterations made so far.
bmCall(text, pattern) ==
    [pc |-> "call", text |-> text, pattern |-> pattern, badChar |-> <<>>,
     s |-> 0, results |-> <<>>, ret |-> <<>>, shifts |-> <<>>]

\* const m = ..., n = ...; if (m === 0) return []; badChar...; let s = 0; const results = [];
BMEnter ==
    /\ bm.pc = "call"
    /\ bm' = IF Len(bm.pattern) = 0
             THEN [bm EXCEPT !.pc = "done", !.ret = <<>>]
             ELSE [bm EXCEPT !.pc = "scan", !.badChar = badCharTable(bm.pattern),
                             !.s = 0, !.results = <<>>]
    /\ UNCHANGED <<rope, files, suggestionTrie, res, run>>

\* one iteration of while (s <= n - m) that ends in the branch if (j < 0)
BMMatch ==
    /\ bm.pc = "scan"
    /\ Len(bm.shifts) < MaxIters
    /\ bm.s <= Len(bm.text) - Len(bm.pattern)
    /\ compareFrom(bm.text, bm.pattern, bm.s, Len(bm.pattern) - 1) < 0
    /\ bm' = [bm EXCEPT !.results = Append(bm.results, bm.s),
                        !.s = bm.s + shiftAfterMatch(bm.text, bm.pattern, bm.badChar, bm.s),
                        !.shifts = Append(bm.shifts, bm.s)]
    /\ UNCHANGED <<rope, files, suggestionTrie, res, run>>

\* one iteration of while (s <= n - m) that ends in the else branch
BMMismatch ==
    /\ bm.pc = "scan"
    /\ Len(bm.shifts) < MaxIters
    /\ bm.s <= Len(bm.text) - Len(bm.pattern)
    /\ LET j == compareFrom(bm.text, bm.pattern, bm.s, Len(bm.pattern) - 1)
       IN  /\ j >= 0
           /\ bm' = [bm EXCEPT !.s = bm.s + shiftAfterMismatch(bm.text, bm.badChar, bm.s, j),
                               !.shifts = Append(bm.shifts, bm.s)]
    /\ UNCHANGED <<rope, files, suggestionTrie, res, run>>

\* the loop condition fails: return results;
BMReturn ==
    /\ bm.pc = "scan"
    /\ ~(bm.s <= Len(bm.text) - Len(bm.pattern))
    /\ bm' = [bm EXCEPT !.pc = "done", !.ret = bm.results]
    /\ UNCHANGED <<rope, files, suggestionTrie, res, run>>

-----------------------------------------------------------------------------
(* 1. ROPE DATA STRUCTURE                                                  *)

\* JavaScript's null
Null == [null |-> TRUE]

\* class RopeNode: constructor(value)
RopeNode(value) ==
    [value |-> value, left |-> Null, right |-> Null, weight |-> Len(value)]

\* class Rope: constructor(str = "")
RopeNew(str) == [root |-> RopeNode(str)]

\* Rope.toString(node = this.root)
RECURSIVE RopeToString(_)
RopeToString(node) ==
    IF node = Null THEN <<>>
    ELSE IF node.left = Null /\ node.right = Null THEN node.value
    ELSE RopeToString(node.left) \o RopeToString(node.right)

\* RopeInsert with the tail taken one character late
RopeInsertTailLate(r, index, text) ==
    LET currentText == RopeToString(r.root)
        newText == Slice(currentText, 0, index) \o text \o SliceFrom(currentText, index + 1)
    IN  [rope |-> [r EXCEPT !.root = RopeNode(newText)], ret |-> newText, error |-> "none"]

\* Rope.insert(index, text): the rope afterwards, the value returned and the
\* error thrown (the method has no throw statement)
RopeInsert(r, index, text) ==
    LET currentText == RopeToString(r.root)
        newText == Slice(currentText, 0, index) \o text \o SliceFrom(currentText, index)
    IN  [rope |-> [r EXCEPT !.root = RopeNode(newText)], ret |-> newText, error |-> "none"]

\* RopeDelete with the character at end deleted too
RopeDeleteThroughEnd(r, start, end) ==
    LET currentText == RopeToString(r.root)
        newText == Slice(currentText, 0, start) \o SliceFrom(currentText, end + 1)
    IN  [rope |-> [r EXCEPT !.root = RopeNode(newText)], ret |-> newText, error |-> "none"]

\* Rope.delete(start, end) of the earlier revision, as RopeInsert
RopeDelete(r, start, end) ==
    LET currentText == RopeToString(r.root)
        newText == Slice(currentText, 0, start) \o SliceFrom(currentText, end)
    IN  [rope |-> [r EXCEPT !.root = RopeNode(newText)], ret |-> newText, error |-> "none"]

-----------------------------------------------------------------------------
(* 2. TRIE (Prefix Tree & Spell Checker)                                   *)

UpperCase == <<"A", "B", "C", "D", "E", "F", "G", "H", "I", "J", "K", "L", "M",
               "N", "O", "P", "Q", "R", "S", "T", "U", "V", "W", "X", "Y", "Z">>
LowerCase == <<"a", "b", "c", "d", "e", "f", "g", "h", "i", "j", "k", "l", "m",
               "n", "o", "p", "q", "r", "s", "t", "u", "v", "w", "x", "y", "z">>

\* String.prototype.toLowerCase on one character and on a string
LowerChar(c) ==
    IF \E i \in 1..Len(UpperCase) : UpperCase[i] = c
    THEN LowerCase[CHOOSE i \in 1..Len(UpperCase) : UpperCase[i] = c]
    ELSE c
RECURSIVE toLowerCase(_)
toLowerCase(str) ==
    IF Len(str) = 0 THEN <<>>
    ELSE Append(toLowerCase(SubSeq(str, 1, Len(str) - 1)), LowerChar(str[Len(str)]))

\* class TrieNode: children (its keys, in insertion order) and isEndOfWord.
\* A trie is the function from each node's path (the characters from the
\* root) to the node; the child under key c of the node at path p is the
\* node at path p \o <<c>>.
TrieNode == [children |-> <<>>, isEndOfWord |-> FALSE]

\* class Trie: constructor()
TrieNew == <<>> :> TrieNode

\* node.children[char] is present
HasChild(node, char) == \E k \in 1..Len(node.children) : node.children[k] = char

\* the loop of Trie.insert from character i of the lowercased word on
RECURSIVE trieInsertFrom(_, _, _)
trieInsertFrom(t, word, i) ==
    IF i > Len(word)
    THEN [t EXCEPT ![word].isEndOfWord = TRUE]
    ELSE LET path == SubSeq(word, 1, i - 1)
             child == SubSeq(word, 1, i)
         IN  IF HasChild(t[path], word[i])
             THEN trieInsertFrom(t, word, i + 1)
             ELSE trieInsertFrom(
                     [t EXCEPT ![path].children = Append(@, word[i])] @@ (child :> TrieNode),
                     word, i + 1)

\* Trie.insert(word)
TrieInsert(t, word) == trieInsertFrom(t, toLowerCase(word), 1)

\* the loop of Trie.contains from character i of the lowercased word on
RECURSIVE trieContainsFrom(_, _, _)
trieContainsFrom(t, word, i) ==
    IF i > Len(word)
    THEN t[word].isEndOfWord
    ELSE IF ~HasChild(t[SubSeq(word, 1, i - 1)], word[i])
         THEN FALSE
         ELSE trieContainsFrom(t, word, i + 1)

\* contains that returns true for every node reached, complete word or not
TrieContainsAnyNode(t, word) == toLowerCase(word) \in DOMAIN t

\* Trie.contains(word)
TrieContains(t, word) == trieContainsFrom(t, toLowerCase(word), 1)

\* the keys that for...in visits before all others: the integer-like keys, in
\* ascending numeric order (a key of node.children is a single character)
IntegerKeys == <<"0", "1", "2", "3", "4", "5", "6", "7", "8", "9">>
IsIntegerKey(char) == \E d \in 1..Len(IntegerKeys) : IntegerKeys[d] = char

\* for (let char in node.children): the keys in the order for...in visits
\* them, integer-like keys ascending, then the other keys in insertion order
ForInKeys(children) ==
    SelectSeq(IntegerKeys, LAMBDA d : \E k \in 1..Len(children) : children[k] = d)
        \o SelectSeq(children, LAMBDA c : ~IsIntegerKey(c))

\* results.slice(0, 8) in Trie._findAllWords
findCap == 8

RECURSIVE findAllWords(_, _)
RECURSIVE findInChildren(_, _, _, _)

\* findAllWords without the slice
findAllWordsUncapped(t, path) ==
    (IF t[path].isEndOfWord THEN <<path>> ELSE <<>>)
        \o findInChildren(t, path, ForInKeys(t[path].children), 1)

\* findAllWords that keeps the words after the first 8
findAllWordsKeepsLast(t, path) ==
    LET results == (IF t[path].isEndOfWord THEN <<path>> ELSE <<>>)
                       \o findInChildren(t, path, ForInKeys(t[path].children), 1)
    IN  SubSeq(results, Max(1, Len(results) - findCap + 1), Len(results))

\* the loop of Trie._findAllWords from the k-th key on: the results of the
\* recursive calls, concatenated
findInChildren(t, path, keys, k) ==
    IF k > Len(keys) THEN <<>>
    ELSE findAllWords(t, Append(path, keys[k])) \o findInChildren(t, path, keys, k + 1)

\* Trie._findAllWords(node, currentPrefix) for the node at path; currentPrefix
\* is the path, since find descends along the prefix it passes on
findAllWords(t, path) ==
    LET results == (IF t[path].isEndOfWord THEN <<path>> ELSE <<>>)
                       \o findInChildren(t, path, ForInKeys(t[path].children), 1)
    IN  Slice(results, 0, findCap)

\* the loop of Trie.find from character i of the lowercased prefix on
RECURSIVE trieFindFrom(_, _, _)
trieFindFrom(t, prefix, i) ==
    IF i > Len(prefix)
    THEN findAllWords(t, prefix)
    ELSE IF ~HasChild(t[SubSeq(prefix, 1, i - 1)], prefix[i])
         THEN <<>>
         ELSE trieFindFrom(t, prefix, i + 1)

\* Trie.find(prefix)
TrieFind(t, prefix) == trieFindFrom(t, toLowerCase(prefix), 1)

\* words.forEach(word => trie.insert(word)) for the words lo..hi, in order:
\* the first half, then the second half into the trie the first half left
RECURSIVE trieInsertAll(_, _, _, _)
trieInsertAll(t, words, lo, hi) ==
    IF lo > hi THEN t
    ELSE IF lo = hi THEN TrieInsert(t, words[lo])
    ELSE LET mid == (lo + hi) \div 2
         IN  trieInsertAll(trieInsertAll(t, words, lo, mid), words, mid + 1, hi)

\* Base Dictionary
keywords == <<
    <<"f", "u", "n", "c", "t", "i", "o", "n">>, <<"r", "e", "t", "u", "r", "n">>,
    <<"c", "o", "n", "s", "t">>, <<"l", "e", "t">>, <<"v", "a", "r">>,
    <<"i", "m", "p", "o", "r", "t">>, <<"e", "x", "p", "o", "r", "t">>,
    <<"c", "l", "a", "s", "s">>, <<"c", "o", "n", "s", "o", "l", "e">>, <<"l", "o", "g">>,
    <<"a", "s", "y", "n", "c">>, <<"a", "w", "a", "i", "t">>,
    <<"s", "t", "r", "u", "c", "t", "u", "r", "e">>, <<"r", "o", "p", "e">>,
    <<"t", "r", "i", "e">>, <<"s", "t", "a", "c", "k">>,
    <<"a", "l", "g", "o", "r", "i", "t", "h", "m">>,
    <<"l", "i", "n", "k", "e", "d", "l", "i", "s", "t">>, <<"q", "u", "e", "u", "e">>,
    <<"h", "e", "a", "p">>, <<"g", "r", "a", "p", "h">>,
    <<"t", "r", "a", "v", "e", "r", "s", "e">>, <<"b", "i", "n", "a", "r", "y">>,
    <<"t", "h", "e">>, <<"b", "e">>, <<"t", "o">>, <<"o", "f">>, <<"a", "n", "d">>, <<"a">>,
    <<"i", "n">>, <<"t", "h", "a", "t">>, <<"h", "a", "v", "e">>, <<"i">>, <<"i", "t">>,
    <<"f", "o", "r">>, <<"n", "o", "t">>, <<"o", "n">>, <<"w", "i", "t", "h">>, <<"h", "e">>,
    <<"a", "s">>, <<"y", "o", "u">>, <<"d", "o">>, <<"a", "t">>, <<"t", "h", "i", "s">>,
    <<"b", "u", "t">>, <<"h", "i", "s">>, <<"b", "y">>, <<"f", "r", "o", "m">>,
    <<"t", "h", "e", "y">>, <<"w", "e">>, <<"s", "a", "y">>, <<"h", "e", "r">>, <<"s", "h", "e">>,
    <<"o", "r">>, <<"a", "n">>, <<"w", "i", "l", "l">>, <<"m", "y">>, <<"o", "n", "e">>,
    <<"a", "l", "l">>, <<"w", "o", "u", "l", "d">>, <<"t", "h", "e", "r", "e">>,
    <<"t", "h", "e", "i", "r">>, <<"w", "h", "a", "t">>, <<"s", "o">>, <<"u", "p">>,
    <<"o", "u", "t">>, <<"i", "f">>, <<"a", "b", "o", "u", "t">>, <<"w", "h", "o">>,
    <<"g", "e", "t">>, <<"w", "h", "i", "c", "h">>, <<"g", "o">>, <<"m", "e">>,
    <<"w", "h", "e", "n">>, <<"m", "a", "k", "e">>, <<"c", "a", "n">>, <<"l", "i", "k", "e">>,
    <<"t", "i", "m", "e">>, <<"n", "o">>, <<"j", "u", "s", "t">>, <<"h", "i", "m">>,
    <<"k", "n", "o", "w">>, <<"t", "a", "k", "e">>, <<"p", "e", "o", "p", "l", "e">>,
    <<"i", "n", "t", "o">>, <<"y", "e", "a", "r">>, <<"g", "o", "o", "d">>, <<"s", "o", "m", "e">>,
    <<"c", "o", "u", "l", "d">>, <<"t", "h", "e", "m">>, <<"s", "e", "e">>,
    <<"o", "t", "h", "e", "r">>, <<"t", "h", "a", "n">>, <<"t", "h", "e", "n">>, <<"n", "o", "w">>,
    <<"l", "o", "o", "k">>, <<"o", "n", "l", "y">>, <<"c", "o", "m", "e">>, <<"i", "t", "s">>,
    <<"o", "v", "e", "r">>, <<"t", "h", "i", "n", "k">>, <<"a", "l", "s", "o">>,
    <<"b", "a", "c", "k">>, <<"a", "f", "t", "e", "r">>, <<"u", "s", "e">>, <<"t", "w", "o">>,
    <<"h", "o", "w">>, <<"o", "u", "r">>, <<"w", "o", "r", "k">>, <<"f", "i", "r", "s", "t">>,
    <<"w", "e", "l", "l">>, <<"w", "a", "y">>, <<"e", "v", "e", "n">>, <<"n", "e", "w">>,
    <<"w", "a", "n", "t">>, <<"b", "e", "c", "a", "u", "s", "e">>, <<"a", "n", "y">>,
    <<"t", "h", "e", "s", "e">>, <<"g", "i", "v", "e">>, <<"m", "o", "s", "t">>, <<"u", "s">>,
    <<"m", "a", "n", "y">>, <<"m", "u", "s", "t">>, <<"b", "e", "f", "o", "r", "e">>,
    <<"c", "a", "l", "l">>, <<"d", "o", "w", "n">>, <<"f", "i", "n", "d">>,
    <<"b", "e", "t", "t", "e", "r">>, <<"e", "d", "i", "t", "o", "r">>,
    <<"p", "r", "o", "j", "e", "c", "t">>, <<"l", "e", "a", "r", "n", "i", "n", "g">>,
    <<"d", "a", "t", "a">>, <<"e", "f", "f", "i", "c", "i", "e", "n", "t">>,
    <<"m", "o", "d", "e", "r", "n">>, <<"d", "e", "s", "i", "g", "n">>,
    <<"d", "e", "v", "e", "l", "o", "p", "m", "e", "n", "t">>,
    <<"p", "r", "o", "g", "r", "a", "m">>, <<"s", "e", "a", "r", "c", "h">>,
    <<"r", "e", "p", "l", "a", "c", "e">>, <<"o", "p", "t", "i", "o", "n">>,
    <<"u", "s", "i", "n", "g">>, <<"i", "m", "p", "l", "e", "m", "e", "n", "t">>,
    <<"c", "r", "e", "a", "t", "e">>, <<"a", "p", "p", "l", "i", "c", "a", "t", "i", "o", "n">>,
    <<"t", "e", "x", "t">>, <<"f", "i", "l", "e">>, <<"t", "a", "b">>, <<"s", "p", "l", "i", "t">>,
    <<"h", "e", "l", "l", "o">>, <<"w", "o", "r", "l", "d">>,
    <<"w", "e", "l", "c", "o", "m", "e">>, <<"d", "e", "m", "o">>, <<"c", "h", "e", "c", "k">>,
    <<"s", "p", "e", "l", "l", "i", "n", "g">>, <<"e", "r", "r", "o", "r">>,
    <<"c", "o", "r", "r", "e", "c", "t">>, <<"w", "r", "o", "n", "g">>,
    <<"r", "i", "g", "h", "t">>, <<"c", "o", "d", "e">>, <<"w", "e", "b">>, <<"i", "s">>,
    <<"a", "r", "e">>, <<"a", "m">>, <<"w", "a", "s">>, <<"w", "e", "r", "e">>,
    <<"b", "e", "e", "n">>, <<"b", "e", "i", "n", "g">>
>>

-----------------------------------------------------------------------------
(* 3. STACKS (Undo / Redo)                                                 *)

\* this.maxSize = 50
maxSize == 50

\* class UndoRedoManager: constructor()
UndoRedoManagerNew == [undoStack |-> <<>>, redoStack |-> <<>>, maxSize |-> maxSize]

\* Array.prototype.pop: the array without its last element
Popped(stack) == SubSeq(stack, 1, Len(stack) - 1)
\* the last element of a non-empty array
Top(stack) == stack[Len(stack)]

\* saveState without the eviction at maxSize
saveStateKeepsAll(h, text) ==
    IF Len(h.undoStack) = 0 \/ Top(h.undoStack) # text
    THEN [h EXCEPT !.undoStack = Append(@, text), !.redoStack = <<>>]
    ELSE h

\* saveState evicting the newest snapshot (pop) instead of the oldest (shift)
saveStateDropsNewest(h, text) ==
    IF Len(h.undoStack) = 0 \/ Top(h.undoStack) # text
    THEN LET pushed == Append(h.undoStack, text)
         IN  [h EXCEPT !.undoStack = IF Len(pushed) > h.maxSize THEN Popped(pushed) ELSE pushed,
                       !.redoStack = <<>>]
    ELSE h

\* saveState that leaves the redo stack as it is
saveStateKeepsRedo(h, text) ==
    IF Len(h.undoStack) = 0 \/ Top(h.undoStack) # text
    THEN LET pushed == Append(h.undoStack, text)
         IN  [h EXCEPT !.undoStack = IF Len(pushed) > h.maxSize THEN Tail(pushed) ELSE pushed]
    ELSE h

\* saveState without the comparison with the top
saveStateAlwaysPushes(h, text) ==
    LET pushed == Append(h.undoStack, text)
    IN  [h EXCEPT !.undoStack = IF Len(pushed) > h.maxSize THEN Tail(pushed) ELSE pushed,
                  !.redoStack = <<>>]

\* UndoRedoManager.saveState(text): the manager afterwards
saveState(h, text) ==
    IF Len(h.undoStack) = 0 \/ Top(h.undoStack) # text
    THEN LET pushed == Append(h.undoStack, text)
         IN  [h EXCEPT !.undoStack = IF Len(pushed) > h.maxSize THEN Tail(pushed) ELSE pushed,
                       !.redoStack = <<>>]
    ELSE h

\* undo pushing the snapshot it returns, not currentText, onto the redo stack
undoPushesPrevious(h, currentText) ==
    IF Len(h.undoStack) = 0
    THEN [history |-> h, ret |-> currentText]
    ELSE [history |-> [h EXCEPT !.undoStack = Popped(@),
                                !.redoStack = Append(@, Top(h.undoStack))],
          ret |-> Top(h.undoStack)]

\* undo without the test for an empty undo stack: currentText is pushed
\* onto the redo stack all the same
undoPushesOnEmpty(h, currentText) ==
    IF Len(h.undoStack) = 0
    THEN [history |-> [h EXCEPT !.redoStack = Append(@, currentText)], ret |-> currentText]
    ELSE [history |-> [h EXCEPT !.undoStack = Popped(@),
                                !.redoStack = Append(@, currentText)],
          ret |-> Top(h.undoStack)]

\* UndoRedoManager.undo(currentText): the manager afterwards and the value returned
undo(h, currentText) ==
    IF Len(h.undoStack) = 0
    THEN [history |-> h, ret |-> currentText]
    ELSE [history |-> [h EXCEPT !.undoStack = Popped(@),
                                !.redoStack = Append(@, currentText)],
          ret |-> Top(h.undoStack)]

\* UndoRedoManager.redo(currentText): the manager afterwards and the value returned
redo(h, currentText) ==
    IF Len(h.redoStack) = 0
    THEN [history |-> h, ret |-> currentText]
    ELSE [history |-> [h EXCEPT !.redoStack = Popped(@),
                                !.undoStack = Append(@, currentText)],
          ret |-> Top(h.redoStack)]

-----------------------------------------------------------------------------
(* SERVER STATE & ROUTES                                                   *)

\* new Rope("Welcome to the Editor.\nStart typing to see the magic.")
exampleText == <<
    "W", "e", "l", "c", "o", "m", "e", " ", "t", "o", " ", "t", "h", "e", " ", "E", "d", "i", "t",
    "o", "r", ".", "\n", "S", "t", "a", "r", "t", " ", "t", "y", "p", "i", "n", "g", " ", "t", "o",
    " ", "s", "e", "e", " ", "t", "h", "e", " ", "m", "a", "g", "i", "c", "."
>>

\* const files = { 'example.txt': { content: ..., history: new UndoRedoManager() } }
filesInit ==
    [n \in {"example.txt"} |->
        [content |-> RopeNew(exampleText), history |-> UndoRedoManagerNew]]

\* p is a prefix of w
IsPrefixOf(p, w) == Len(p) <= Len(w) /\ SubSeq(w, 1, Len(p)) = p

\* the words (by index) that make Trie.insert create a child of the node at
\* path p: they pass through p, and no earlier word passes through the
\* same child
CreatesChildOf(words, p) ==
    {k \in 1..Len(words) :
        /\ Len(words[k]) > Len(p)
        /\ IsPrefixOf(p, words[k])
        /\ \A j \in 1..(k - 1) : ~IsPrefixOf(SubSeq(words[k], 1, Len(p) + 1), words[j])}

\* the r-th smallest member of a set of numbers
NthOf(set, r) == CHOOSE k \in set : Cardinality({j \in set : j < k}) = r - 1

\* The trie that words.forEach(word => trie.insert(word)) builds from an
\* empty trie, for lowercase words, node by node: its nodes are the
\* prefixes of the words; insert creates a child the first time a word
\* passes through it, so a node's keys stand in the order of the words that
\* created them; isEndOfWord is set on the paths that are whole words.
TrieOf(words) ==
    [p \in UNION {{SubSeq(words[k], 1, n) : n \in 0..Len(words[k])} : k \in 1..Len(words)}
           \cup {<<>>} |->
        [children |-> [r \in 1..Cardinality(CreatesChildOf(words, p)) |->
                          words[NthOf(CreatesChildOf(words, p), r)][Len(p) + 1]],
         isEndOfWord |-> \E k \in 1..Len(words) : words[k] = p]]

\* the words of the base dictionary as Trie.insert stores them
keywordsLowered == SubSeq([k \in 1..Len(keywords) |-> toLowerCase(keywords[k])], 1, Len(keywords))

\* const suggestionTrie = new Trie(); keywords.forEach(word => suggestionTrie.insert(word));
suggestionTrieInit == TrieOf(keywordsLowered)

\* the separators of text.split(/[\s\n\.\,\!\?]+/)
IsSeparator(c) == c \in {" ", "\n", "\t", "\r", ".", ",", "!", "?"}

\* the positions at which a run of non-separator characters of text starts
PieceStarts(text) ==
    {i \in 1..Len(text) : ~IsSeparator(text[i]) /\ (i = 1 \/ IsSeparator(text[i - 1]))}

\* the run of non-separator characters of text that starts at position i
PieceAt(text, i) ==
    SubSeq(text, i,
           CHOOSE e \in i..Len(text) :
               /\ \A k \in i..e : ~IsSeparator(text[k])
               /\ e = Len(text) \/ IsSeparator(text[e + 1]))

\* text.split(/[\s\n\.\,\!\?]+/): the pieces between runs of separators, in
\* order. A run of separators at the start or at the end of the text yields
\* an empty piece there, and the empty text yields one empty piece.
split(text) ==
    LET starts == PieceStarts(text)
        nth(k) == CHOOSE i \in starts : Cardinality({j \in starts : j < i}) = k - 1
        runs == [k \in 1..Cardinality(starts) |-> PieceAt(text, nth(k))]
    IN  (IF Len(text) = 0 \/ IsSeparator(text[1]) THEN <<<<>>>> ELSE <<>>)
        \o runs
        \o (IF Len(text) > 0 /\ IsSeparator(text[Len(text)]) THEN <<<<>>>> ELSE <<>>)

\* w.length > 2
IsLearnable(w) == Len(w) > 2

\* learn into a new trie: the words known before are dropped
learnAfresh(t, text) ==
    LET words == SelectSeq(split(text), IsLearnable)
    IN  trieInsertAll(TrieNew, words, 1, Len(words))

\* text.split(...).forEach(w => { if (w.length > 2) suggestionTrie.insert(w.toLowerCase()); })
\* the pieces that pass the test, inserted in order
learn(t, text) ==
    LET words == SelectSeq(split(text), IsLearnable)
        lowered == [k \in 1..Len(words) |-> toLowerCase(words[k])]
    IN  trieInsertAll(t, lowered, 1, Len(words))

\* files[name] is present
HasFile(name) == name \in DOMAIN files

\* a response: the request it answers (op, name, text), the HTTP status, the
\* kind of body sent and, for a { content } body, the content
Response(op, name, text, status, body, content) ==
    [op |-> op, name |-> name, text |-> text, status |-> status,
     body |-> body, content |-> content]

\* no request has been answered yet
NoResponse == Response("none", "", <<>>, 0, "none", <<>>)

\* the update handler without the test currentStr !== text
UpdateFileAlwaysSaves(name, text) ==
    IF ~HasFile(name)
    THEN /\ res' = Response("update", name, text, 404, "Err", <<>>)
         /\ UNCHANGED <<files, suggestionTrie>>
    ELSE LET currentStr == RopeToString(files[name].content.root)
         IN  /\ files' = [files EXCEPT ![name] =
                            [content |-> RopeNew(text),
                             history |-> saveState(@.history, currentStr)]]
             /\ suggestionTrie' = learn(suggestionTrie, text)
             /\ res' = Response("update", name, text, 200, "success", <<>>)

\* app.post('/api/file/:name/update')
UpdateFile(name, text) ==
    IF ~HasFile(name)
    THEN /\ res' = Response("update", name, text, 404, "Err", <<>>)
         /\ UNCHANGED <<files, suggestionTrie>>
    ELSE LET currentStr == RopeToString(files[name].content.root)
         IN  /\ IF currentStr # text
                THEN /\ files' = [files EXCEPT ![name] =
                                    [content |-> RopeNew(text),
                                     history |-> saveState(@.history, currentStr)]]
                     /\ suggestionTrie' = learn(suggestionTrie, text)
                ELSE UNCHANGED <<files, suggestionTrie>>
             /\ res' = Response("update", name, text, 200, "success", <<>>)

\* app.post('/api/file/:name/undo')
UndoFile(name) ==
    IF ~HasFile(name)
    THEN /\ res' = Response("undo", name, <<>>, 404, "Err", <<>>)
         /\ UNCHANGED <<files, suggestionTrie>>
    ELSE LET r == undo(files[name].history, RopeToString(files[name].content.root))
         IN  /\ files' = [files EXCEPT ![name] =
                            [content |-> RopeNew(r.ret), history |-> r.history]]
             /\ res' = Response("undo", name, <<>>, 200, "content", r.ret)
             /\ UNCHANGED suggestionTrie

\* app.post('/api/file/:name/redo')
RedoFile(name) ==
    IF ~HasFile(name)
    THEN /\ res' = Response("redo", name, <<>>, 404, "Err", <<>>)
         /\ UNCHANGED <<files, suggestionTrie>>
    ELSE LET r == redo(files[name].history, RopeToString(files[name].content.root))
         IN  /\ files' = [files EXCEPT ![name] =
                            [content |-> RopeNew(r.ret), history |-> r.history]]
             /\ res' = Response("redo", name, <<>>, 200, "content", r.ret)
             /\ UNCHANGED suggestionTrie

\* app.post('/api/files') with { name, oldName }; oldName = "" stands for a
\* body without oldName (an empty string is falsy as well)
CreateOrRenameFile(name, oldName) ==
    /\ IF oldName # "" /\ HasFile(oldName)
       THEN \* files[name] = files[oldName]; delete files[oldName];
            files' = [n \in (DOMAIN files \cup {name}) \ {oldName} |->
                        IF n = name THEN files[oldName] ELSE files[n]]
       ELSE files' = [n \in DOMAIN files \cup {name} |->
                        IF n = name
                        THEN [content |-> RopeNew(<<>>), history |-> UndoRedoManagerNew]
                        ELSE files[n]]
    /\ res' = Response("files", name, <<>>, 200, "success", <<>>)
    /\ UNCHANGED suggestionTrie

\* app.delete('/api/file/:name')
DeleteFile(name) ==
    /\ files' = [n \in DOMAIN files \ {name} |-> files[n]]
    /\ res' = Response("delete", name, <<>>, 200, "success", <<>>)
    /\ UNCHANGED suggestionTrie

\* app.post('/api/autocomplete')
Autocomplete(prefix) ==
    /\ res' = Response("autocomplete", "", prefix, 200, "suggestions",
                       TrieFind(suggestionTrie, prefix))
    /\ UNCHANGED <<files, suggestionTrie>>

\* [a-zA-Z] and \w of the pattern /\b[a-zA-Z]{3,}\b/g
IsLetter(c) == \E i \in 1..Len(UpperCase) : UpperCase[i] = c \/ LowerCase[i] = c
IsWordChar(c) == IsLetter(c) \/ IsIntegerKey(c) \/ c = "_"

\* text.match(/\b[a-zA-Z]{3,}\b/g) || []: the runs of letters of text that
\* are at least 3 long and have no word character (letter, digit, _) on
\* either side, in order. A run next to a digit or _ has no word boundary
\* there, and no shorter part of it has one, so it yields no match.
match(text) ==
    LET starts == {i \in 1..Len(text) :
                      IsLetter(text[i]) /\ (i = 1 \/ ~IsLetter(text[i - 1]))}
        last(i) == CHOOSE e \in i..Len(text) :
                       /\ \A k \in i..e : IsLetter(text[k])
                       /\ e = Len(text) \/ ~IsLetter(text[e + 1])
        matches == {i \in starts :
                       /\ last(i) - i + 1 >= 3
                       /\ i = 1 \/ ~IsWordChar(text[i - 1])
                       /\ last(i) = Len(text) \/ ~IsWordChar(text[last(i) + 1])}
        nth(k) == CHOOSE i \in matches : Cardinality({j \in matches : j < i}) = k - 1
    IN  [k \in 1..Cardinality(matches) |-> SubSeq(text, nth(k), last(nth(k)))]

\* [...new Set(words)]: the first occurrence of each string, in order
distinct(words) ==
    LET firsts == {k \in 1..Len(words) : \A j \in 1..(k - 1) : words[j] # words[k]}
        nth(k) == CHOOSE i \in firsts : Cardinality({j \in firsts : j < i}) = k - 1
    IN  [k \in 1..Cardinality(firsts) |-> words[nth(k)]]

\* CheckSpelling that tests the word as written, not lowercased
CheckSpellingCaseSensitive(text) ==
    LET words == match(text)
        wrongWords == SelectSeq(words, LAMBDA w : ~trieContainsFrom(suggestionTrie, w, 1))
    IN  /\ res' = Response("check-spelling", "", text, 200, "wrongWords", distinct(wrongWords))
        /\ UNCHANGED <<files, suggestionTrie>>

\* app.post('/api/check-spelling')
CheckSpelling(text) ==
    LET words == match(text)
        wrongWords == SelectSeq(words, LAMBDA w : ~TrieContains(suggestionTrie, w))
    IN  /\ res' = Response("check-spelling", "", text, 200, "wrongWords", distinct(wrongWords))
        /\ UNCHANGED <<files, suggestionTrie>>

\* app.post('/api/search'): boyerMooreSearch is called
Search(text, pattern) ==
    /\ bm' = bmCall(text, pattern)
    /\ UNCHANGED <<files, suggestionTrie, res>>

\* app.post('/api/search'): boyerMooreSearch has returned, res.json({ indices })
SearchRespond ==
    /\ bm.pc = "done"
    /\ res' = Response("search", "", bm.text, 200, "indices", bm.ret)
    /\ bm' = [bmCall(<<>>, <<>>) EXCEPT !.pc = "idle"]
    /\ UNCHANGED <<rope, files, suggestionTrie, run>>

-----------------------------------------------------------------------------
(* The runs explored.                                                      *)

\* requests served in one run of Spec
MaxRequests == 4
\* calls made on one UndoRedoManager in one run of SpecManager
MaxCalls == 5
\* the names requests address: the initial file and one that does not exist yet
Names == {"example.txt", "notes.txt"}
\* the texts update requests carry
InputTexts == {exampleText, <<>>, <<"a", "a", "a", " ", "A", "b", "c">>,
               <<"f", "o", "o", ";", "b", "a", "r">>}

\* run: nothing served, no chain, nothing inserted into an empty trie
runInit == [requests |-> 0, phase |-> "edit", style |-> "type", texts |-> <<>>,
            undos |-> 0, redos |-> 0, inserted |-> {}]
\* bm and rope when no search and no direct rope call is under way
bmIdle == [bmCall(<<>>, <<>>) EXCEPT !.pc = "idle"]
ropeIdle == [buf |-> RopeNew(<<>>),
             call |-> [op |-> "new", a |-> 0, b |-> 0, text |-> <<>>, before |-> <<>>,
                       ret |-> <<>>, error |-> "none"]]

\* the state after the module is loaded
Init ==
    /\ bm = bmIdle
    /\ rope = ropeIdle
    /\ files = filesInit
    /\ suggestionTrie = suggestionTrieInit
    /\ res = NoResponse
    /\ run = runInit

\* the prefixes autocomplete requests carry, the texts check-spelling
\* requests carry and the <<text, pattern>> search requests carry
InputPrefixes == {<<"s">>, <<"F", "u">>, <<"a", "a">>, <<"z", "z">>}
SpellTexts == {<<"T", "h", "e", " ", "a", "a", "a", " ", "a", "b", "c", " ", "A", "A", "A", ".", "z", "z", "z", " ", "z", "z", "z", " ", "z", "z", "z", "_", "a", "b", "c", "1">>}
SearchInputs == {<<<<"a", "b">>, <<"b">>>>, <<<<"a", "b">>, <<"a">>>>}

\* one more request arrives; the process is single-threaded, so a request is
\* handled when no call of boyerMooreSearch is under way
Arrived ==
    /\ bm.pc = "idle"
    /\ run.requests < MaxRequests
    /\ run' = [run EXCEPT !.requests = @ + 1]
    /\ UNCHANGED rope

\* one more request is served by a handler that does not search
Served == Arrived /\ UNCHANGED bm

Next ==
    \/ \E prefix \in InputPrefixes : Served /\ Autocomplete(prefix)
    \/ \E text \in SpellTexts : Served /\ CheckSpelling(text)
    \/ \E input \in SearchInputs : Arrived /\ Search(input[1], input[2])
    \/ BMEnter \/ BMMatch \/ BMMismatch \/ BMReturn
    \/ SearchRespond
    \/ \E name \in Names, text \in InputTexts : Served /\ UpdateFile(name, text)
    \/ \E name \in Names : Served /\ UndoFile(name)
    \/ \E name \in Names : Served /\ RedoFile(name)
    \/ \E name \in Names, oldName \in Names \cup {""} : Served /\ CreateOrRenameFile(name, oldName)
    \/ \E name \in Names : Served /\ DeleteFile(name)

Spec == Init /\ [][Next]_vars

-----------------------------------------------------------------------------
(* boyerMooreSearch on every text and pattern within the bounds.           *)

\* the server state where only a function of the module is exercised: the
\* function reads none of it, so the registry and the trie are left empty
Unloaded ==
    /\ files = [n \in {} |-> Null]
    /\ suggestionTrie = TrieNew
    /\ res = NoResponse
    /\ run = runInit

InitBM ==
    /\ bm \in {bmCall(text, pattern) : text \in StringsUpTo(SearchChars, MaxText),
                                       pattern \in StringsUpTo(SearchChars, MaxPat)}
    /\ rope = ropeIdle
    /\ Unloaded

NextBM == BMEnter \/ BMMatch \/ BMMismatch \/ BMReturn

SpecBM == InitBM /\ [][NextBM]_vars

-----------------------------------------------------------------------------
(* Claims about boyerMooreSearch (SpecBM).                                 *)

\* text[i : i + len(pattern)] == pattern, for a 0-based i
OccursAt(text, pattern, i) ==
    /\ i >= 0
    /\ i + Len(pattern) <= Len(text)
    /\ SubSeq(text, i + 1, i + Len(pattern)) = pattern

\* the offsets at which pattern occurs in text
Occurrences(text, pattern) ==
    {i \in 0..Len(text) : OccursAt(text, pattern, i)}

\* offsets lists each member of set once, in ascending order
ListsAscending(offsets, set) ==
    /\ Len(offsets) = Cardinality(set)
    /\ \A k \in 1..Len(offsets) : offsets[k] \in set
    /\ \A k \in 1..(Len(offsets) - 1) : offsets[k] < offsets[k + 1]

\* C1: boyerMooreSearch(text, pattern) returns exactly the offsets i with
\* text[i : i + len(pattern)] == pattern, every one and no other, for a
\* non-empty pattern, and the empty sequence for an empty pattern. Stated on
\* the array the function builds and returns: while it scans, the offsets
\* recorded so far are the occurrences below some offset, each once and
\* ascending; what it returns lists all occurrences (none for an empty pattern).
BMReturnsExactOffsets ==
    /\ bm.pc = "scan" =>
          \E bound \in 0..(Len(bm.text) + 1) :
              ListsAscending(bm.results,
                             {i \in Occurrences(bm.text, bm.pattern) : i < bound})
    /\ bm.pc = "done" =>
          IF Len(bm.pattern) = 0
          THEN bm.ret = <<>>
          ELSE ListsAscending(bm.ret, Occurrences(bm.text, bm.pattern))

\* C2: boyerMooreSearch terminates for every text and pattern: the loop
\* while (s <= n - m) is eventually left, also when a full match is followed
\* by a character that does not occur in the pattern. text, pattern and
\* badChar are fixed during the loop and an iteration computes the next s from
\* them and s alone, so the loop is left exactly if no value of s recurs at
\* its head (s stays between -1 and n - m while the loop runs).
BMTerminates ==
    \A a \in 1..Len(bm.shifts), b \in 1..Len(bm.shifts) :
        a # b => bm.shifts[a] # bm.shifts[b]

\* C18: during and after every run of boyerMooreSearch the recorded offsets
\* are strictly ascending (no offset is recorded twice), because the shift s
\* strictly increases in every iteration of the scan loop.
BMOffsetsAscending ==
    /\ \A k \in 1..(Len(bm.results) - 1) : bm.results[k] < bm.results[k + 1]
    /\ \A k \in 1..(Len(bm.ret) - 1) : bm.ret[k] < bm.ret[k + 1]
    /\ \A k \in 1..(Len(bm.shifts) - 1) : bm.shifts[k] < bm.shifts[k + 1]
    /\ Len(bm.shifts) > 0 => bm.shifts[Len(bm.shifts)] < bm.s

-----------------------------------------------------------------------------
(* Rope.insert and Rope.delete called directly on a rope (SpecRope).       *)

\* the call just made on rope.buf: its arguments (a and b: index, or start
\* and end), the text before it, the value returned and the error thrown
RopeCall(op, a, b, text, before, ret, error) ==
    [op |-> op, a |-> a, b |-> b, text |-> text, before |-> before,
     ret |-> ret, error |-> error]

\* the offsets handed in: from beyond the start to beyond the end
RopeOffsets == (0 - MaxRopeText - MaxBeyond)..(MaxRopeText + MaxBeyond)

InitRope ==
    /\ rope \in {[buf |-> RopeNew(t), call |-> ropeIdle.call] :
                    t \in StringsUpTo(RopeChars, MaxRopeText)}
    /\ bm = bmIdle
    /\ Unloaded

\* rope.insert(index, text)
RopeInsertCall(index, text) ==
    LET r == RopeInsert(rope.buf, index, text)
    IN  /\ Len(r.ret) <= MaxRopeText
        /\ rope' = [buf |-> r.rope,
                    call |-> RopeCall("insert", index, 0, text,
                                      RopeToString(rope.buf.root), r.ret, r.error)]
        /\ UNCHANGED <<bm, files, suggestionTrie, res, run>>

\* rope.delete(start, end)
RopeDeleteCall(start, end) ==
    LET r == RopeDelete(rope.buf, start, end)
    IN  /\ Len(r.ret) <= MaxRopeText
        /\ rope' = [buf |-> r.rope,
                    call |-> RopeCall("delete", start, end, <<>>,
                                      RopeToString(rope.buf.root), r.ret, r.error)]
        /\ UNCHANGED <<bm, files, suggestionTrie, res, run>>

NextRope ==
    \/ \E index \in RopeOffsets, text \in StringsUpTo(RopeChars, MaxFragment) :
          RopeInsertCall(index, text)
    \/ \E start \in RopeOffsets, end \in RopeOffsets : RopeDeleteCall(start, end)

SpecRope == InitRope /\ [][NextRope]_vars

\* the arguments of the last call were out of range
InsertOutOfRange == rope.call.a < 0 \/ rope.call.a > Len(rope.call.before)
DeleteOutOfRange ==
    \/ rope.call.a < 0
    \/ rope.call.b > Len(rope.call.before)
    \/ rope.call.a > rope.call.b

\* C9: out-of-range arguments to Rope.insert (offset < 0 or offset > length)
\* and to Rope.delete (start < 0, end > length or start > end) signal an
\* InvalidRange error and leave the buffer's text unchanged.
RopeRejectsInvalidRange ==
    /\ rope.call.op = "insert" /\ InsertOutOfRange =>
          /\ rope.call.error = "InvalidRange"
          /\ RopeToString(rope.buf.root) = rope.call.before
    /\ rope.call.op = "delete" /\ DeleteOutOfRange =>
          /\ rope.call.error = "InvalidRange"
          /\ RopeToString(rope.buf.root) = rope.call.before

\* C10: for every buffer text t, every offset with 0 <= offset <= len(t) and
\* every fragment s, Rope.insert(offset, s) returns t[0:offset] + s + t[offset:]
\* and toString() afterwards returns the same string.
RopeInsertSplices ==
    rope.call.op = "insert" /\ ~InsertOutOfRange =>
        /\ rope.call.ret = SubSeq(rope.call.before, 1, rope.call.a) \o rope.call.text
                           \o SubSeq(rope.call.before, rope.call.a + 1, Len(rope.call.before))
        /\ RopeToString(rope.buf.root) = rope.call.ret

\* a fragment was inserted strictly inside a text
RopeInsertedInside ==
    /\ rope.call.op = "insert"
    /\ rope.call.a > 0
    /\ rope.call.a < Len(rope.call.before)
    /\ Len(rope.call.text) > 0
    /\ RopeToString(rope.buf.root) # rope.call.before

\* C11: for every buffer text t and every range with 0 <= start <= end <=
\* len(t), Rope.delete(start, end) returns t[0:start] + t[end:] and toString()
\* afterwards returns the same string.
RopeDeleteSplices ==
    rope.call.op = "delete" /\ ~DeleteOutOfRange =>
        /\ rope.call.ret = SubSeq(rope.call.before, 1, rope.call.a)
                           \o SubSeq(rope.call.before, rope.call.b + 1, Len(rope.call.before))
        /\ RopeToString(rope.buf.root) = rope.call.ret

\* a non-empty range strictly inside a text was deleted
RopeDeletedInside ==
    /\ rope.call.op = "delete"
    /\ 0 < rope.call.a
    /\ rope.call.a < rope.call.b
    /\ rope.call.b < Len(rope.call.before)
    /\ Len(RopeToString(rope.buf.root)) = Len(rope.call.before) - (rope.call.b - rope.call.a)

-----------------------------------------------------------------------------
(* Trie.insert, Trie.find and Trie.contains on a trie that starts empty    *)
(* (SpecTrie). suggestionTrie is the trie, res the outcome of the last     *)
(* call, run.inserted the words handed to insert so far.                   *)

\* the words inserted: ten words, nine of them under "a", with words that
\* are prefixes of others, digit keys and an upper-case word
TrieWords ==
    {<<"a">>, <<"a", "a">>, <<"a", "b">>, <<"a", "1">>, <<"a", "a", "a">>,
     <<"a", "a", "b">>, <<"a", "b", "a">>, <<"a", "b", "b">>, <<"a", "b", "1">>,
     <<"B">>}
\* the prefixes looked up and the words tested
TriePrefixes == {<<>>, <<"a">>, <<"A", "b">>, <<"b", "1">>}
TrieProbes == {<<"a", "b">>, <<"A", "A">>, <<"b">>, <<"a", "b", "c">>}

InitTrie ==
    /\ bm = bmIdle
    /\ rope = ropeIdle
    /\ files = [n \in {} |-> Null]
    /\ suggestionTrie = TrieNew
    /\ res = NoResponse
    /\ run = runInit

\* trie.insert(word)
TrieInsertCall(word) ==
    /\ suggestionTrie' = TrieInsert(suggestionTrie, word)
    /\ res' = Response("insert", "", <<>>, 200, "none", <<>>)
    /\ run' = [run EXCEPT !.inserted = @ \cup {word}]
    /\ UNCHANGED <<bm, rope, files>>

\* trie.find(prefix), as the autocomplete handler calls it
TrieFindCall(prefix) ==
    /\ Autocomplete(prefix)
    /\ UNCHANGED <<bm, rope, run>>

\* trie.contains(word); the response holds the boolean returned
TrieContainsCall(word) ==
    /\ res' = Response("contains", "", word, 200, "boolean",
                       <<TrieContains(suggestionTrie, word)>>)
    /\ UNCHANGED <<bm, rope, files, suggestionTrie, run>>

NextTrie ==
    \/ \E word \in TrieWords : TrieInsertCall(word)
    \/ \E prefix \in TriePrefixes : TrieFindCall(prefix)
    \/ \E word \in TrieProbes : TrieContainsCall(word)

SpecTrie == InitTrie /\ [][NextTrie]_vars

\* the vocabulary: the words on the complete-word paths of the trie
Vocabulary == {p \in DOMAIN suggestionTrie : suggestionTrie[p].isEndOfWord}

\* the words of the vocabulary that begin with the lowercased prefix
WordsWithPrefix(prefix) == {w \in Vocabulary : IsPrefixOf(toLowerCase(prefix), w)}

\* C12: for every vocabulary reachable by insertions and every prefix,
\* Trie.find(prefix) returns only words that begin with the lowercased
\* prefix, at most 8 of them, and the empty list for a prefix that has no
\* node in the trie.
FindWithinPrefixAndCap ==
    res.op = "autocomplete" =>
        /\ \A k \in 1..Len(res.content) :
              IsPrefixOf(toLowerCase(res.text), res.content[k])
        /\ Len(res.content) <= findCap
        /\ toLowerCase(res.text) \notin DOMAIN suggestionTrie => res.content = <<>>

\* find was asked for a prefix that more than 8 words of the vocabulary
\* begin with, and returned 8
FindHitCap ==
    /\ res.op = "autocomplete"
    /\ Cardinality(WordsWithPrefix(res.text)) > findCap
    /\ Len(res.content) = findCap

\* C14: Trie.contains(w) is true if and only if some previously inserted
\* word equals w after both are lowercased; in particular it is false for a
\* proper prefix of an inserted word that was never itself inserted.
ContainsIffInserted ==
    res.op = "contains" =>
        (res.content[1] <=>
            \E word \in run.inserted : toLowerCase(word) = toLowerCase(res.text))

\* contains returned false for "ab" after "aba" and "abb" were inserted, and
\* "ab" was not
ContainsRejectedPrefix ==
    /\ res.op = "contains"
    /\ res.text = <<"a", "b">>
    /\ res.content = <<FALSE>>
    /\ {<<"a", "b", "a">>, <<"a", "b", "b">>} \subseteq run.inserted

\* path p comes before path q in the depth-first pre-order walk of the trie:
\* a node comes before its descendants, and the subtrees of a node come in
\* the order for...in visits its keys
KeyIndex(keys, char) == CHOOSE k \in 1..Len(keys) : keys[k] = char
WalkedBefore(p, q) ==
    IF IsPrefixOf(p, q) THEN p # q
    ELSE IF IsPrefixOf(q, p) THEN FALSE
    ELSE LET i == CHOOSE i \in 1..Len(p) :
                      p[i] # q[i] /\ SubSeq(p, 1, i - 1) = SubSeq(q, 1, i - 1)
             keys == ForInKeys(suggestionTrie[SubSeq(p, 1, i - 1)].children)
         IN  KeyIndex(keys, p[i]) < KeyIndex(keys, q[i])

\* the k-th word in pre-order among the words of the set
NthWalked(words, k) ==
    CHOOSE w \in words : Cardinality({v \in words : WalkedBefore(v, w)}) = k - 1

\* C20: the cap is a plain truncation: Trie.find(prefix) returns exactly the
\* first min(8, N) words of the depth-first pre-order enumeration of the
\* subtree at the prefix node, N being the number of words of the vocabulary
\* with that prefix (truncating at every level of the recursion gives the
\* same list as truncating once at the end); all N words when N <= 8.
FindIsTruncatedWalk ==
    res.op = "autocomplete" =>
        LET words == WordsWithPrefix(res.text)
            n == Min(findCap, Cardinality(words))
        IN  /\ Len(res.content) = n
            /\ \A k \in 1..n : res.content[k] = NthWalked(words, k)

\* find("") on the trie of all ten words: the nine words under "a" are cut
\* to 8 in the call for that node and the root's list is cut again; the key
\* "1" is walked before the keys "a" and "b"
FindTruncatedTwice ==
    /\ res.op = "autocomplete"
    /\ res.text = <<>>
    /\ Cardinality(WordsWithPrefix(<<"a">>)) = 9
    /\ Cardinality(Vocabulary) = 10
    /\ Len(res.content) = findCap
    /\ res.content[2] = <<"a", "1">>

-----------------------------------------------------------------------------
(* The history of one document, to its full depth. The document is the     *)
(* initial file; each text-changing edit types one more character after    *)
(* the text (the update request carries the whole new text).               *)

Doc == "example.txt"

\* the text of the document under name
TextOf(name) == RopeToString(files[name].content.root)

\* the text with the next character typed: "a" and " " in turn
Typed(text) == Append(text, IF Len(text) % 2 = 1 THEN "a" ELSE " ")

\* SpecHist: update (typing on, or resending the text), undo and redo
\* requests on the document in any order
NextHist ==
    \/ \E text \in {TextOf(Doc), Typed(TextOf(Doc))} :
          /\ Len(text) <= Len(exampleText) + MaxTyped
          /\ UpdateFile(Doc, text)
          /\ UNCHANGED <<bm, rope, run>>
    \/ UndoFile(Doc) /\ UNCHANGED <<bm, rope, run>>
    \/ RedoFile(Doc) /\ UNCHANGED <<bm, rope, run>>

SpecHist == Init /\ [][NextHist]_vars

\* SpecChain: a chain of k edits T0 -> T1 -> ... -> Tk on the document, then
\* undo requests (up to one more than k), then redo requests. run.texts is
\* <<T0, ..., Tk>>, run.undos and run.redos count the requests of each phase.
\* The texts of a chain are pairwise distinct (style "type": one more
\* character each) or return to earlier ones (style "swap": the initial text
\* and the empty text in turn, so that T(i+1) is the snapshot on top of the
\* undo stack when Ti is saved).
ChainStyles == {"type", "swap"}

\* the text of the next edit of the chain
ChainText(style, text) ==
    IF style = "type" THEN Typed(text)
    ELSE IF text = exampleText THEN <<>> ELSE exampleText

InitChain ==
    /\ bm = bmIdle
    /\ rope = ropeIdle
    /\ files = filesInit
    /\ suggestionTrie = suggestionTrieInit
    /\ res = NoResponse
    /\ run \in {[runInit EXCEPT !.texts = <<exampleText>>, !.style = style] :
                   style \in ChainStyles}

ChainLength == Len(run.texts) - 1

ChainEdit ==
    /\ run.phase = "edit"
    /\ ChainLength < MaxChain
    /\ UpdateFile(Doc, ChainText(run.style, TextOf(Doc)))
    /\ run' = [run EXCEPT !.texts = Append(@, ChainText(run.style, TextOf(Doc)))]
    /\ UNCHANGED <<bm, rope>>

ChainUndo ==
    /\ run.phase \in {"edit", "undo"}
    /\ run.undos <= ChainLength
    /\ UndoFile(Doc)
    /\ run' = [run EXCEPT !.phase = "undo", !.undos = @ + 1]
    /\ UNCHANGED <<bm, rope>>

ChainRedo ==
    /\ run.phase \in {"undo", "redo"}
    /\ run.undos >= ChainLength
    /\ run.redos <= ChainLength
    /\ RedoFile(Doc)
    /\ run' = [run EXCEPT !.phase = "redo", !.redos = @ + 1]
    /\ UNCHANGED <<bm, rope>>

NextChain == ChainEdit \/ ChainUndo \/ ChainRedo

SpecChain == InitChain /\ [][NextChain]_vars

\* the last request was answered with this content, which is the document's text
Returned(text) ==
    /\ res.status = 200
    /\ res.body = "content"
    /\ res.content = text
    /\ TextOf(Doc) = text

\* C3: for a chain of k <= 50 text-changing edits T0 -> ... -> Tk on a
\* document with an empty history, k successive undo requests return
\* T(k-1), ..., T0 in that order and k successive redo requests after that
\* return T1, ..., Tk in that order, each text restored exactly.
\* (run.texts[i + 1] is Ti.)
ChainRoundTrip ==
    ChainLength <= maxSize =>
        /\ run.phase = "undo" /\ run.undos \in 1..ChainLength =>
              Returned(run.texts[ChainLength - run.undos + 1])
        /\ run.phase = "redo" /\ run.redos \in 1..ChainLength =>
              Returned(run.texts[run.redos + 1])

\* a chain of 50 edits undone and redone to its end
ChainRedoneToEnd ==
    /\ ChainLength = maxSize
    /\ run.phase = "redo"
    /\ run.redos = maxSize
    /\ TextOf(Doc) = run.texts[maxSize + 1]

\* C4: in every state reachable by update, undo and redo requests, every
\* document's undo stack holds at most 50 snapshots and its redo stack
\* holds at most 50 snapshots.
StacksBounded ==
    \A name \in DOMAIN files :
        /\ Len(files[name].history.undoStack) <= maxSize
        /\ Len(files[name].history.redoStack) <= maxSize

\* a redo request has pushed the 50th snapshot onto the undo stack
RedoFilledUndoStack ==
    /\ res.op = "redo"
    /\ res.status = 200
    /\ Len(files[Doc].history.undoStack) = maxSize
    /\ Top(files[Doc].history.undoStack) # TextOf(Doc)

\* C5: after 51 successive text-changing edits T0 -> ... -> T51 on a
\* document with an empty history the oldest snapshot T0 has been evicted:
\* successive undo requests return T50, ..., T1, the next undo is a no-op
\* that returns T1, and T0 is never returned (in a chain of pairwise distinct
\* texts: where T2 is the same string as T0, that string is returned as T2).
ChainEvictsOldest ==
    ChainLength = maxSize + 1 /\ run.phase \in {"undo", "redo"} =>
        /\ run.phase = "undo" /\ run.undos \in 1..maxSize =>
              Returned(run.texts[ChainLength - run.undos + 1])
        /\ run.phase = "undo" /\ run.undos > maxSize => Returned(run.texts[2])
        /\ run.style = "type" => res.content # run.texts[1]

\* the 52nd undo request after 51 edits of pairwise distinct texts has been
\* answered
ChainUndonePastOldest ==
    /\ run.style = "type"
    /\ ChainLength = maxSize + 1
    /\ run.phase = "undo"
    /\ run.undos = maxSize + 2
    /\ files[Doc].history.undoStack = <<>>

-----------------------------------------------------------------------------
(* Claims about the update, undo and redo handlers (Spec).                 *)

\* the step is a handler answering a request op on an existing document: no
\* search is under way or started (the steps of a search leave res as the
\* request before the search left it)
Answers(op) ==
    /\ bm.pc = "idle"
    /\ bm' = bm
    /\ res'.op = op
    /\ res'.name \in DOMAIN files

\* C6: in the current revision an update request whose text equals the
\* document's current text is a no-op: the document's text, its undo stack,
\* its redo stack and the shared vocabulary are all unchanged.
UpdateSameTextIsNoOp ==
    [][Answers("update") /\ TextOf(res'.name) = res'.text =>
          /\ res'.status = 200
          /\ files' = files
          /\ suggestionTrie' = suggestionTrie]_vars

\* an update was answered and the document's redo stack is not empty: the
\* update carried the text the document had after an undo
UpdateKeptRedo ==
    /\ res.op = "update"
    /\ res.status = 200
    /\ HasFile(res.name)
    /\ TextOf(res.name) = res.text
    /\ files[res.name].history.redoStack # <<>>
    /\ files[res.name].history.undoStack # <<>>

\* C7: after any update request that changes a document's text, in any
\* reachable state, that document's redo stack is empty, so that a
\* following redo request is a no-op.
UpdateClearsRedo ==
    [][Answers("update") /\ TextOf(res'.name) # res'.text =>
          /\ files'[res'.name].history.redoStack = <<>>
          /\ redo(files'[res'.name].history, res'.text) =
                [history |-> files'[res'.name].history, ret |-> res'.text]]_vars

\* the third request of a run: the initial file was set to a text, that was
\* undone, and an update to the empty text has now dropped the redo branch
UpdateAfterUndo ==
    /\ run.requests = 3
    /\ res.op = "update"
    /\ res.name = Doc
    /\ res.text = <<>>
    /\ DOMAIN files = {Doc}
    /\ TextOf(Doc) = <<>>
    /\ files[Doc].history.undoStack = <<exampleText>>
    /\ files[Doc].history.redoStack = <<>>
    /\ TrieContains(suggestionTrie, <<"a", "a", "a">>)

\* C8: undo with an empty undo stack and redo with an empty redo stack
\* return the current text, signal no error, and leave both stacks and the
\* document's text unchanged.
EmptyStackIsNoOp ==
    [][/\ Answers("undo") /\ files[res'.name].history.undoStack = <<>> =>
            /\ res'.status = 200
            /\ res'.body = "content"
            /\ res'.content = TextOf(res'.name)
            /\ files'[res'.name].history = files[res'.name].history
            /\ RopeToString(files'[res'.name].content.root) = TextOf(res'.name)
       /\ Answers("redo") /\ files[res'.name].history.redoStack = <<>> =>
            /\ res'.status = 200
            /\ res'.body = "content"
            /\ res'.content = TextOf(res'.name)
            /\ files'[res'.name].history = files[res'.name].history
            /\ RopeToString(files'[res'.name].content.root) = TextOf(res'.name)]_vars

\* an undo was answered and the redo stack is empty: the undo stack was
\* empty (an undo that pops pushes onto the redo stack)
UndoOnEmptyStack ==
    /\ res.op = "undo"
    /\ res.status = 200
    /\ HasFile(res.name)
    /\ res.content = TextOf(res.name)
    /\ files[res.name].history.redoStack = <<>>
    /\ files[res.name].history.undoStack = <<>>

-----------------------------------------------------------------------------
(* Claims about the vocabulary under requests (Spec).                      *)

\* words tested for membership: base words, learned words and words never
\* inserted, in either case
VocabularyProbes ==
    {<<"f", "u", "n", "c", "t", "i", "o", "n">>, <<"T", "H", "E">>,
     <<"w", "e", "l", "c", "o", "m", "e">>, <<"a", "a", "a">>, <<"A", "A", "A">>,
     <<"a", "b", "c">>, <<"z", "z", "z">>}

\* C13: the vocabulary only grows: in every sequence of update, undo, redo,
\* create, rename, delete, search, autocomplete and check-spelling requests,
\* once Trie.contains(w) is true it is true in every later state. Stated for
\* every step: each complete-word path of the trie is one after the step, and
\* contains stays true for the words tested.
VocabularyOnlyGrows ==
    [][/\ \A p \in Vocabulary :
             p \in DOMAIN suggestionTrie' /\ suggestionTrie'[p].isEndOfWord
       /\ \A w \in VocabularyProbes :
             TrieContains(suggestionTrie, w) => TrieContains(suggestionTrie', w)]_vars

\* a learned word is still known after every document has been deleted
LearnedWordOutlivesFiles ==
    /\ res.op = "delete"
    /\ DOMAIN files = {}
    /\ ~TrieContains(suggestionTrieInit, <<"a", "a", "a">>)
    /\ TrieContains(suggestionTrie, <<"A", "A", "A">>)

\* C15: check-spelling never reports a word that is, case-insensitively, in
\* the vocabulary at the time of the request (words learned from earlier
\* edits included), and reports each out-of-vocabulary word at most once.
\* (No request between the response and the state changes the trie without
\* replacing res.)
SpellingReportsOnlyUnknown ==
    res.op = "check-spelling" =>
        /\ \A k \in 1..Len(res.content) : toLowerCase(res.content[k]) \notin Vocabulary
        /\ \A j \in 1..Len(res.content), k \in 1..Len(res.content) :
              j # k => res.content[j] # res.content[k]

\* after "aaa" and "Abc" were learned, the text with "The", "aaa", "abc", "AAA"
\* and "zzz" twice was checked: "zzz" alone is reported, once
SpellingAfterLearning ==
    /\ res.op = "check-spelling"
    /\ ~TrieContains(suggestionTrieInit, <<"a", "b", "c">>)
    /\ TrieContains(suggestionTrie, <<"a", "b", "c">>)
    /\ res.content = <<<<"z", "z", "z">>>>

\* whitespace and punctuation characters
IsWhitespace(c) == c \in {" ", "\n", "\t", "\r"}
IsPunctuation(c) ==
    c \in {".", ",", "!", "?", ";", ":", "'", "(", ")", "[", "]", "{", "}", "-"}

\* the whitespace/punctuation-delimited tokens of text: the maximal runs of
\* characters that are neither whitespace nor punctuation
Tokens(text) ==
    LET inToken(i) == ~IsWhitespace(text[i]) /\ ~IsPunctuation(text[i])
    IN  {SubSeq(text, ie[1], ie[2]) : ie \in
            {ie \in (1..Len(text)) \X (1..Len(text)) :
                /\ ie[1] <= ie[2]
                /\ \A k \in ie[1]..ie[2] : inToken(k)
                /\ ie[1] = 1 \/ ~inToken(ie[1] - 1)
                /\ ie[2] = Len(text) \/ ~inToken(ie[2] + 1)}}

\* C16: after an update request that changes a document's text to T, every
\* whitespace/punctuation-delimited token of T of length > 2 is, lowercased,
\* a member of the shared trie (Trie.contains returns true for it).
UpdateLearnsTokens ==
    [][Answers("update") /\ TextOf(res'.name) # res'.text =>
          \A token \in Tokens(res'.text) :
              Len(token) > 2 => TrieContains(suggestionTrie', token)]_vars

-----------------------------------------------------------------------------
(* Claims about what undo and redo return (Spec).                          *)

\* C17: in the current revision a caller can detect a no-op by comparing
\* texts: in every reachable state an undo request returns a text different
\* from the document's current text whenever the undo stack is non-empty, and
\* a redo request returns a different text whenever the redo stack is
\* non-empty.
UndoRedoReturnOtherText ==
    [][/\ Answers("undo") /\ files[res'.name].history.undoStack # <<>> =>
             res'.content # TextOf(res'.name)
       /\ Answers("redo") /\ files[res'.name].history.redoStack # <<>> =>
             res'.content # TextOf(res'.name)]_vars

\* a redo has returned a text popped from the redo stack: the text it
\* replaced is on top of the undo stack
RedoReturnedOtherText ==
    /\ res.op = "redo"
    /\ HasFile(res.name)
    /\ files[res.name].history.undoStack # <<>>
    /\ res.content = TextOf(res.name)
    /\ Top(files[res.name].history.undoStack) # res.content
    /\ run.requests >= 3

-----------------------------------------------------------------------------
(* saveState, undo and redo called directly on the UndoRedoManager of the  *)
(* initial document, with any texts (SpecManager). res holds the last      *)
(* call: its name, the text passed and, for undo and redo, the text        *)
(* returned.                                                               *)

\* the texts passed to the calls
ManagerTexts == {<<"a">>, <<"b">>}

InitManager ==
    /\ bm = bmIdle
    /\ rope = ropeIdle
    /\ files = filesInit
    /\ suggestionTrie = TrieNew
    /\ res = NoResponse
    /\ run = runInit

\* one more call is made
Called ==
    /\ run.requests < MaxCalls
    /\ run' = [run EXCEPT !.requests = @ + 1]
    /\ UNCHANGED <<bm, rope, suggestionTrie>>

\* files[Doc].history.saveState(text)
SaveStateCall(text) ==
    /\ Called
    /\ files' = [files EXCEPT ![Doc].history = saveState(@, text)]
    /\ res' = Response("saveState", Doc, text, 200, "none", <<>>)

\* files[Doc].history.undo(currentText)
UndoCall(currentText) ==
    LET r == undo(files[Doc].history, currentText)
    IN  /\ Called
        /\ files' = [files EXCEPT ![Doc].history = r.history]
        /\ res' = Response("undo", Doc, currentText, 200, "content", r.ret)

\* files[Doc].history.redo(currentText)
RedoCall(currentText) ==
    LET r == redo(files[Doc].history, currentText)
    IN  /\ Called
        /\ files' = [files EXCEPT ![Doc].history = r.history]
        /\ res' = Response("redo", Doc, currentText, 200, "content", r.ret)

NextManager ==
    \/ \E text \in ManagerTexts : SaveStateCall(text)
    \/ \E text \in ManagerTexts : UndoCall(text)
    \/ \E text \in ManagerTexts : RedoCall(text)

SpecManager == InitManager /\ [][NextManager]_vars

\* C19 as stated: in every reachable state of a history, the top of the undo
\* stack, if present, is not equal to the text passed to the most recent
\* saveState call. Stated for the states in which the last call made is a
\* saveState call.
SaveStateTopDiffers ==
    res.op = "saveState" /\ files[Doc].history.undoStack # <<>> =>
        Top(files[Doc].history.undoStack) # res.text

\* C19, amended: when saveState(text) returns, the top of the undo stack
\* equals text. The call pushes text (and empties the redo stack) when the
\* undo stack was empty or its top differed from text, and leaves both
\* stacks as they were when the top equalled text (duplicate suppression).
SaveStateTopIsSaved ==
    [][res'.op = "saveState" /\ run'.requests = run.requests + 1 =>
          LET before == files[Doc].history
              after == files'[Doc].history
          IN  /\ after.undoStack # <<>>
              /\ Top(after.undoStack) = res'.text
              /\ IF before.undoStack # <<>> /\ Top(before.undoStack) = res'.text
                 THEN after = before
                 ELSE /\ after.undoStack =
                            IF Len(before.undoStack) < maxSize
                            THEN Append(before.undoStack, res'.text)
                            ELSE Tail(Append(before.undoStack, res'.text))
                      /\ after.redoStack = <<>>]_vars

\* saveState was called with the text on top of the undo stack while the
\* redo stack was not empty: nothing was pushed and the redo stack was kept
SaveStateSuppressed ==
    /\ res.op = "saveState"
    /\ files[Doc].history.redoStack # <<>>
    /\ Top(files[Doc].history.undoStack) = res.text

-----------------------------------------------------------------------------
(* Renaming a document through POST /api/files.                            *)

\* C21: a rename request POST /api/files { name, oldName } in which oldName
\* names an existing document never loses that document: for every name,
\* after the request a document exists under name whose text, undo stack
\* and redo stack are exactly those the document under oldName had before
\* the request.
RenameKeepsDocument ==
    [][\A name \in Names, oldName \in Names :
          (HasFile(oldName) /\ Served /\ CreateOrRenameFile(name, oldName)) =>
              /\ name \in DOMAIN files'
              /\ RopeToString(files'[name].content.root) =
                     RopeToString(files[oldName].content.root)
              /\ files'[name].history.undoStack = files[oldName].history.undoStack
              /\ files'[name].history.redoStack = files[oldName].history.redoStack]_vars

====
